---- MODULE Spec2Model ----
(***************************************************************************)
(* Model of the Crafty "Text" component (src/src/text.js): the component   *)
(* state of an entity (_text, _textFont, _textColor, _strength, the cached *)
(* width _w), the four public methods text, textColor, textFont and        *)
(* unselectable, and the handler bound to "Draw" in init, painting either  *)
(* on the entity's DOM element or on a shared canvas 2D context.           *)
(***************************************************************************)
EXTENDS Integers, Sequences, FiniteSets, TLC

VARIABLES ent, ctx, call, ret, emitted, invoked, changes, sets, ncalls

vars == <<ent, ctx, call, ret, emitted, invoked, changes, sets, ncalls>>

(***************************************************************************)
(* Bounds.                                                                 *)
(***************************************************************************)
\* Number of calls (methods and Draw notifications) in one behaviour.
MaxCalls == 3

(***************************************************************************)
(* JavaScript values. A value carries its typeof tag and its string        *)
(* representation; objects used as maps also carry their properties.       *)
(***************************************************************************)
Str(s) == [type |-> "string", val |-> s]

Num(s) == [type |-> "number", val |-> s]

Bool(s) == [type |-> "boolean", val |-> s]

Undefined == [type |-> "undefined", val |-> "undefined"]

Null == [type |-> "object", val |-> "null"]

Fn(name) == [type |-> "function", val |-> name]

Obj(props) == [type |-> "object", val |-> "[object Object]", props |-> props]

\* The return value "this" of the chainable methods.
This(id) == [type |-> "object", val |-> "entity", id |-> id]

\* ToBoolean, as used by the || operator.
Truthy(v) ==
    ~ (v \in {Undefined, Null, Str(""), Num("0"), Num("NaN"), Bool("false")})

\* a || b
Or(a, b) == IF Truthy(a) THEN a ELSE b

\* ToString, as applied by string concatenation.
ToStr(v) == v.val

\* a + b with a string operand: string concatenation.
Cat(a, b) == Str(ToStr(a) \o ToStr(b))

(***************************************************************************)
(* Component prototype.                                                    *)
(***************************************************************************)
defaultSize == Str("10px")

defaultFamily == Str("sans-serif")

FontKeys == {"type", "weight", "size", "family"}

\* this._textFont as assigned by init.
InitTextFont == [k \in FontKeys |-> Str("")]

(***************************************************************************)
(* Object property access.                                                 *)
(***************************************************************************)
EmptyObj == [k \in {} |-> Undefined]

\* o[k]
Get(o, k) == IF k \in DOMAIN o THEN o[k] ELSE Undefined

\* o[k] = v
Put(o, k, v) == [x \in (DOMAIN o) \cup {k} |-> IF x = k THEN v ELSE o[x]]

\* The enumerable properties a for-in loop visits.
Props(v) == IF "props" \in DOMAIN v THEN v.props ELSE EmptyObj

(***************************************************************************)
(* Framework collaborators of the entity.                                  *)
(***************************************************************************)
\* this.has(comp)
has(this, comp) == comp \in this.comps

\* this.trigger(event): one notification delivered to the observers.
trigger(eff, event) == [eff EXCEPT !.emitted = Append(@, event)]

\* Crafty.toRGB(hex, alpha): the resolved color string.
toRGB(color, strength) ==
    LET rgb == IF color = Str("#FF0000") THEN "255,0,0" ELSE "0,0,255"
    IN  IF strength = Undefined
        THEN Str("rgb(" \o rgb \o ")")
        ELSE Str("rgba(" \o rgb \o "," \o ToStr(strength) \o ")")

\* this.css(map): sets each style property of the entity's element.
css(this, map) ==
    [this EXCEPT !._element.style =
        [p \in (DOMAIN @) \cup (DOMAIN map) |->
            IF p \in DOMAIN map THEN map[p] ELSE @[p]]]

\* textgenerator.call(this) for the generator functions of the examples.
FnCall(f, this) ==
    IF f.val = "posX"
    THEN Cat(Str("My position is "), Num(ToString(this._x)))
    ELSE Str("r")

\* The effect of a method call: the entity after it, the value returned,
\* the notifications triggered and the generator invocations made.
Eff(this, r) == [this |-> this, ret |-> r, emitted |-> <<>>, invoked |-> <<>>]

(***************************************************************************)
(* .text(text)                                                             *)
(***************************************************************************)
\* text with the getter test written as !text.
text_falsyGetter(this, t) ==
    IF ~ Truthy(t)
    THEN Eff(this, this._text)
    ELSE LET set == IF t.type = "function"
                    THEN [Eff([this EXCEPT !._text = FnCall(t, this)], This(this.id))
                             EXCEPT !.invoked = <<[fn |-> t.val, context |-> this.id]>>]
                    ELSE Eff([this EXCEPT !._text = t], This(this.id))
         IN  trigger(set, "Change")

\* text storing String(text) instead of text.
text_coerced(this, t) ==
    IF ~ (t.type # "undefined" /\ t # Null)
    THEN Eff(this, this._text)
    ELSE LET set == IF t.type = "function"
                    THEN [Eff([this EXCEPT !._text = FnCall(t, this)], This(this.id))
                             EXCEPT !.invoked = <<[fn |-> t.val, context |-> this.id]>>]
                    ELSE Eff([this EXCEPT !._text = Str(ToStr(t))], This(this.id))
         IN  trigger(set, "Change")

\* text keeping the generator for later instead of calling it.
text_lazy(this, t) ==
    IF ~ (t.type # "undefined" /\ t # Null)
    THEN Eff(this, this._text)
    ELSE trigger(Eff([this EXCEPT !._text = t], This(this.id)), "Change")

text(this, t) ==
    IF ~ (t.type # "undefined" /\ t # Null)
    THEN Eff(this, this._text)
    ELSE LET set == IF t.type = "function"
                    THEN [Eff([this EXCEPT !._text = FnCall(t, this)], This(this.id))
                             EXCEPT !.invoked = <<[fn |-> t.val, context |-> this.id]>>]
                    ELSE Eff([this EXCEPT !._text = t], This(this.id))
         IN  trigger(set, "Change")

(***************************************************************************)
(* .textColor(color, strength)                                             *)
(***************************************************************************)
\* textColor without its trigger.
textColor_silent(this, color, strength) ==
    LET s1 == [this EXCEPT !._strength = strength]
        s2 == [s1 EXCEPT !._textColor = toRGB(color, s1._strength)]
    IN  Eff(s2, This(this.id))

textColor(this, color, strength) ==
    LET s1 == [this EXCEPT !._strength = strength]
        s2 == [s1 EXCEPT !._textColor = toRGB(color, s1._strength)]
    IN  trigger(Eff(s2, This(this.id)), "Change")

(***************************************************************************)
(* .textFont(key, value); args is the arguments object.                    *)
(***************************************************************************)
\* textFont whose map form replaces the descriptor instead of merging.
textFont_replace(this, args) ==
    LET key == IF Len(args) >= 1 THEN args[1] ELSE Undefined
        value == IF Len(args) >= 2 THEN args[2] ELSE Undefined
        replaced == [k \in (DOMAIN this._textFont) \cup (DOMAIN Props(key)) |->
                        IF k \in DOMAIN Props(key) THEN Props(key)[k]
                        ELSE Str("")]
    IN  IF Len(args) = 1
        THEN IF key.type = "string"
             THEN Eff(this, Get(this._textFont, key.val))
             ELSE IF key.type = "object"
                  THEN trigger(Eff([this EXCEPT !._textFont = replaced], This(this.id)), "Change")
                  ELSE trigger(Eff(this, This(this.id)), "Change")
        ELSE trigger(Eff([this EXCEPT !._textFont = Put(@, ToStr(key), value)],
                         This(this.id)), "Change")

textFont(this, args) ==
    LET key == IF Len(args) >= 1 THEN args[1] ELSE Undefined
        value == IF Len(args) >= 2 THEN args[2] ELSE Undefined
        merged == [k \in (DOMAIN this._textFont) \cup (DOMAIN Props(key)) |->
                      IF k \in DOMAIN Props(key) THEN Props(key)[k]
                      ELSE this._textFont[k]]
    IN  IF Len(args) = 1
        THEN IF key.type = "string"
             THEN Eff(this, Get(this._textFont, key.val))
             ELSE IF key.type = "object"
                  THEN trigger(Eff([this EXCEPT !._textFont = merged], This(this.id)), "Change")
                  ELSE trigger(Eff(this, This(this.id)), "Change")
        ELSE trigger(Eff([this EXCEPT !._textFont = Put(@, ToStr(key), value)],
                         This(this.id)), "Change")

(***************************************************************************)
(* .unselectable()                                                         *)
(***************************************************************************)
UnselectableProps ==
    {"-webkit-touch-callout", "-webkit-user-select", "-khtml-user-select",
     "-moz-user-select", "-ms-user-select", "user-select"}

\* unselectable with the trigger outside the capability test.
unselectable_alwaysTriggers(this) ==
    IF has(this, "DOM")
    THEN trigger(Eff(css(this, [p \in UnselectableProps |-> Str("none")]),
                     This(this.id)), "Change")
    ELSE trigger(Eff(this, This(this.id)), "Change")

unselectable(this) ==
    IF has(this, "DOM")
    THEN trigger(Eff(css(this, [p \in UnselectableProps |-> Str("none")]),
                     This(this.id)), "Change")
    ELSE Eff(this, This(this.id))

(***************************************************************************)
(* The canvas 2D drawing context handed to the Draw handler as e.ctx: the  *)
(* paint state, the stack of saved states, and the calls made on it.       *)
(***************************************************************************)
PaintState(c) ==
    [fillStyle |-> c.fillStyle, font |-> c.font, tx |-> c.tx, ty |-> c.ty]

Logged(c, op, arg, x, y) ==
    [c EXCEPT !.log = Append(@, [op |-> op, arg |-> arg, x |-> x, y |-> y,
                                 state |-> PaintState(c),
                                 depth |-> Len(c.stack)])]

\* context.save()
save(c) == Logged([c EXCEPT !.stack = Append(@, PaintState(c))], "save", "", 0, 0)

\* context.restore()
restore(c) ==
    IF c.stack = << >>
    THEN Logged(c, "restore", "", 0, 0)
    ELSE LET top == c.stack[Len(c.stack)]
         IN  Logged([c EXCEPT !.fillStyle = top.fillStyle, !.font = top.font,
                              !.tx = top.tx, !.ty = top.ty,
                              !.stack = SubSeq(@, 1, Len(@) - 1)],
                    "restore", "", 0, 0)

\* context.fillStyle = v
setFillStyle(c, v) == Logged([c EXCEPT !.fillStyle = ToStr(v)], "fillStyle", ToStr(v), 0, 0)

\* context.font = v
setFont(c, v) == Logged([c EXCEPT !.font = ToStr(v)], "font", ToStr(v), 0, 0)

\* context.translate(x, y)
translate(c, x, y) == Logged([c EXCEPT !.tx = @ + x, !.ty = @ + y], "translate", "", x, y)

\* context.fillText(t, x, y)
fillText(c, t, x, y) == Logged(c, "fillText", ToStr(t), x, y)

\* context.measureText(t): the metrics of t in the font in effect.
measureText(c, t) == [width |-> Len(ToStr(t)) * Len(c.font)]

\* The measureText call as it appears among the calls on the context.
measured(c, t) == Logged(c, "measureText", ToStr(t), 0, 0)

(***************************************************************************)
(* The handler bound to "Draw" in init; e is the notification.             *)
(***************************************************************************)
\* The font string joined without its blank fields.
ComposedFont_trimmed(this) ==
    LET field(v) == IF ToStr(v) = "" THEN Str("") ELSE Cat(v, Str(" "))
    IN  Cat(Cat(Cat(field(Get(this._textFont, "type")),
                    field(Get(this._textFont, "weight"))),
                Cat(Or(Get(this._textFont, "size"), defaultSize), Str(" "))),
            Or(Get(this._textFont, "family"), defaultFamily))

ComposedFont(this) ==
    Cat(Cat(Cat(Cat(Cat(Cat(Get(this._textFont, "type"), Str(" ")),
                            Get(this._textFont, "weight")), Str(" ")),
                    Or(Get(this._textFont, "size"), defaultSize)), Str(" ")),
        Or(Get(this._textFont, "family"), defaultFamily))

\* HTML-escaping of the markup characters of the texts used here.
Escaped(v) == IF v = Str("<b>x</b>") THEN Str("&lt;b&gt;x&lt;/b&gt;") ELSE v

\* The DOM branch writing escaped text.
DrawDOMBranch_escaped(this, font) ==
    LET s1 == [this EXCEPT !._element.style = Put(@, "color", this._textColor)]
        s2 == [s1 EXCEPT !._element.style = Put(@, "font", font)]
    IN  [s2 EXCEPT !._element.innerHTML = Escaped(s2._text)]

DrawDOMBranch(this, font) ==
    LET s1 == [this EXCEPT !._element.style = Put(@, "color", this._textColor)]
        s2 == [s1 EXCEPT !._element.style = Put(@, "font", font)]
    IN  [s2 EXCEPT !._element.innerHTML = s2._text]

\* The canvas branch without context.restore().
DrawCanvasBranch_noRestore(this, font, context) ==
    LET c1 == save(context)
        c2 == setFillStyle(c1, Or(this._textColor, Str("rgb(0,0,0)")))
        c3 == setFont(c2, font)
        c4 == translate(c3, this._x, this._y + this._h)
        c5 == fillText(c4, this._text, 0, 0)
        metrics == measureText(c5, this._text)
        c6 == measured(c5, this._text)
        s1 == [this EXCEPT !._w = metrics.width]
    IN  [this |-> s1, ctx |-> c6]

\* The canvas branch measuring after context.restore().
DrawCanvasBranch_measureLate(this, font, context) ==
    LET c1 == save(context)
        c2 == setFillStyle(c1, Or(this._textColor, Str("rgb(0,0,0)")))
        c3 == setFont(c2, font)
        c4 == translate(c3, this._x, this._y + this._h)
        c5 == fillText(c4, this._text, 0, 0)
        c6 == restore(c5)
        metrics == measureText(c6, this._text)
        c7 == measured(c6, this._text)
        s1 == [this EXCEPT !._w = metrics.width]
    IN  [this |-> s1, ctx |-> c7]

DrawCanvasBranch(this, font, context) ==
    LET c1 == save(context)
        c2 == setFillStyle(c1, Or(this._textColor, Str("rgb(0,0,0)")))
        c3 == setFont(c2, font)
        c4 == translate(c3, this._x, this._y + this._h)
        c5 == fillText(c4, this._text, 0, 0)
        metrics == measureText(c5, this._text)
        c6 == measured(c5, this._text)
        s1 == [this EXCEPT !._w = metrics.width]
        c7 == restore(c6)
    IN  [this |-> s1, ctx |-> c7]

Draw(this, e) ==
    LET font == ComposedFont(this)
    IN  IF e.type = "DOM"
        THEN [this |-> DrawDOMBranch(this, font), ctx |-> e.ctx]
        ELSE IF e.type = "canvas"
             THEN DrawCanvasBranch(this, font, e.ctx)
             ELSE [this |-> this, ctx |-> e.ctx]

(***************************************************************************)
(* Entities and the shared context.                                        *)
(***************************************************************************)
\* e1 is a DOM or a Canvas entity, e2 a Canvas entity.
Entities == {"e1", "e2"}

\* Crafty.e("2D, <comp>, Text").attr({x: .., y: .., w: .., h: ..})
NewEntity(id, comp) ==
    [id |-> id, comps |-> {"2D", comp, "Text"},
     _x |-> IF id = "e1" THEN 10 ELSE 100,
     _y |-> IF id = "e1" THEN 20 ELSE 100,
     _h |-> IF id = "e1" THEN 5 ELSE 0,
     _w |-> IF id = "e1" THEN 0 ELSE 50,
     _text |-> Str(""),
     _textFont |-> InitTextFont,
     _textColor |-> Undefined,
     _strength |-> Undefined,
     _element |-> IF comp = "DOM"
                  THEN [style |-> EmptyObj, innerHTML |-> Str("")]
                  ELSE Undefined]

\* A context nobody has painted on, and one another drawer left mid-use.
FreshContext ==
    [fillStyle |-> "#000000", font |-> "10px sans-serif", tx |-> 0, ty |-> 0,
     stack |-> << >>, log |-> << >>]

UsedContext ==
    [fillStyle |-> "#00ff00", font |-> "12px serif", tx |-> 7, ty |-> 1,
     stack |-> << [fillStyle |-> "#000000", font |-> "10px sans-serif",
                   tx |-> 0, ty |-> 0] >>,
     log |-> << >>]

TextArgs ==
    { << >>, <<Undefined>>, <<Null>>, <<Str("")>>, <<Str("hi")>>,
      <<Str("<b>x</b>")>>, <<Num("0")>>, <<Fn("posX")>> }

TextColorArgs ==
    { <<Str("#FF0000")>>, <<Str("#FF0000"), Num("0.6")>>, <<Str("#0000FF")>> }

TextFontArgs ==
    { <<Str("size")>>, <<Str("weight")>>,
      <<Obj([type |-> Str("italic")])>>,
      <<Obj([family |-> Str("Arial")])>>,
      <<Obj([weight |-> Str("bold")])>>,
      <<Obj([size |-> Str("20px"), weight |-> Str("bold")])>>,
      <<Str("type"), Str("italic")>>,
      <<Str("size"), Str("")>>,
      <<Str("family"), Str("")>> }

Arg(args, i) == IF Len(args) >= i THEN args[i] ELSE Undefined

\* The calls that have the form of a set: text with a value, textColor,
\* textFont with a map or with key and value, unselectable with DOM.
IsSetCall(this, op, args) ==
    \/ op = "text" /\ Len(args) = 1 /\ args[1] \notin {Undefined, Null}
    \/ op = "textColor"
    \/ op = "textFont" /\ (Len(args) = 2 \/ (Len(args) = 1 /\ "props" \in DOMAIN args[1]))
    \/ op = "unselectable" /\ "DOM" \in this.comps

Init ==
    /\ \E comp \in {"DOM", "Canvas"} :
          ent = [id \in Entities |->
                    NewEntity(id, IF id = "e1" THEN comp ELSE "Canvas")]
    /\ ctx \in {FreshContext, UsedContext}
    /\ call = [op |-> "init", id |-> "", args |-> << >>]
    /\ ret = Undefined
    /\ emitted = << >>
    /\ invoked = << >>
    /\ changes = 0
    /\ sets = 0
    /\ ncalls = 0

\* One method call on entity id with effect r.
Called(id, op, args, r) ==
    /\ ncalls < MaxCalls
    /\ ent' = [ent EXCEPT ![id] = r.this]
    /\ ctx' = [ctx EXCEPT !.log = << >>]
    /\ call' = [op |-> op, id |-> id, args |-> args]
    /\ ret' = r.ret
    /\ emitted' = r.emitted
    /\ invoked' = r.invoked
    /\ changes' = changes + Len(r.emitted)
    /\ sets' = sets + (IF IsSetCall(ent[id], op, args) THEN 1 ELSE 0)
    /\ ncalls' = ncalls + 1

CallText(id) ==
    \E args \in TextArgs : Called(id, "text", args, text(ent[id], Arg(args, 1)))

CallTextColor(id) ==
    \E args \in TextColorArgs :
        Called(id, "textColor", args, textColor(ent[id], Arg(args, 1), Arg(args, 2)))

CallTextFont(id) ==
    \E args \in TextFontArgs : Called(id, "textFont", args, textFont(ent[id], args))

CallUnselectable(id) ==
    Called(id, "unselectable", << >>, unselectable(ent[id]))

\* The render pass notifies the entity: a DOM entity with its element, a
\* Canvas entity with the shared context.
NotifyDraw(id) ==
    /\ ncalls < MaxCalls
    /\ LET type == IF has(ent[id], "DOM") THEN "DOM" ELSE "canvas"
           r == Draw(ent[id], [type |-> type, ctx |-> [ctx EXCEPT !.log = << >>]])
       IN  /\ ent' = [ent EXCEPT ![id] = r.this]
           /\ ctx' = r.ctx
           /\ call' = [op |-> "Draw", id |-> id, args |-> <<Str(type)>>]
    /\ ret' = Undefined
    /\ emitted' = << >>
    /\ invoked' = << >>
    /\ UNCHANGED <<changes, sets>>
    /\ ncalls' = ncalls + 1

Next ==
    \E id \in Entities :
        \/ CallText(id)
        \/ CallTextColor(id)
        \/ CallTextFont(id)
        \/ CallUnselectable(id)
        \/ NotifyDraw(id)

Spec == Init /\ [][Next]_vars

(***************************************************************************)
(* Properties.                                                             *)
(***************************************************************************)
Methods == {"text", "textColor", "textFont", "unselectable"}

IsCanvasDraw(c) == c.op = "Draw" /\ c.args = <<Str("canvas")>>

IsDOMDraw(c) == c.op = "Draw" /\ c.args = <<Str("DOM")>>

IsTextGetter(c) == c.op = "text" /\ c.args = << >>

\* The context apart from the record of the calls made on it.
Surface(c) == [c EXCEPT !.log = << >>]

Ops(log) == [i \in 1..Len(log) |-> log[i].op]

\* C1: each call in a set form (text with a value, textColor, textFont with
\* a map or with key and value, unselectable on an entity with DOM) emits
\* exactly one "Change", each getter-form call emits none, and so the number
\* of Change notifications equals the number of set-form calls made.
C1_OneChangePerSetCall ==
    /\ changes = sets
    /\ call.op \in Methods =>
          emitted = IF IsSetCall(ent[call.id], call.op, call.args)
                    THEN <<"Change">> ELSE << >>

\* Three calls were made, two of them sets, the last one a textFont getter.
C1_Witness ==
    /\ ncalls = 3 /\ changes = 2
    /\ call.op = "textFont" /\ Len(call.args) = 1 /\ call.args[1].type = "string"
    /\ emitted = << >>

\* C2: text(s) with a literal string s, the empty string included, followed
\* by the getter text() on the same entity returns exactly s.
C2_SetThenGet ==
    [][(/\ call.op = "text" /\ Len(call.args) = 1 /\ call.args[1].type = "string"
        /\ IsTextGetter(call') /\ call'.id = call.id)
       => ret' = call.args[1]]_vars

\* The getter returned "hi", which only text("hi") stores.
C2_Witness ==
    /\ IsTextGetter(call) /\ ret = Str("hi") /\ ncalls = 2

\* C3 as stated: text(v) stores every v that is neither a string nor a
\* function.
C3_StoresEveryNonString ==
    (/\ call.op = "text" /\ Len(call.args) = 1
     /\ call.args[1].type \notin {"string", "function"})
    => (ent[call.id]._text = call.args[1] /\ ret = This(call.id))

\* C3 amended: text(v) stores every v that is neither a string, a function,
\* undefined nor null, unchanged, and the following getter returns v;
\* text(undefined) and text(null) are getter calls that leave the text as
\* it was and return it.
C3_StoresDefinedNonString ==
    [][/\ (/\ call'.op = "text" /\ Len(call'.args) = 1
           /\ call'.args[1].type \notin {"string", "function"}
           /\ call'.args[1] \notin {Undefined, Null})
          => (ent'[call'.id]._text = call'.args[1] /\ ret' = This(call'.id))
       /\ (/\ call.op = "text" /\ Len(call.args) = 1
           /\ call.args[1].type \notin {"string", "function"}
           /\ call.args[1] \notin {Undefined, Null}
           /\ IsTextGetter(call') /\ call'.id = call.id)
          => ret' = call.args[1]
       /\ (call'.op = "text" /\ call'.args \in {<<Undefined>>, <<Null>>})
          => (ent' = ent /\ ret' = ent[call'.id]._text)]_vars

\* The number 0 is the stored text and the getter returned it.
C3_Witness ==
    /\ IsTextGetter(call) /\ ret = Num("0") /\ ent[call.id]._text = Num("0")

\* C4: text(f) invokes the generator f once, during the call and with the
\* entity as its context, and stores what it returned; the following getter
\* returns that string; no Draw notification invokes a generator or changes
\* the stored text of any entity.
C4_GeneratorCalledOnce ==
    [][/\ (call'.op = "text" /\ call'.args = <<Fn("posX")>>)
          => /\ invoked' = <<[fn |-> "posX", context |-> call'.id]>>
             /\ ent'[call'.id]._text =
                   Str("My position is " \o ToString(ent[call'.id]._x))
       /\ (call.op = "text" /\ call.args = <<Fn("posX")>>
           /\ IsTextGetter(call') /\ call'.id = call.id)
          => ret' = Str("My position is " \o ToString(ent[call.id]._x))
       /\ (call'.op = "Draw")
          => /\ invoked' = << >>
             /\ \A id \in Entities : ent'[id]._text = ent[id]._text]_vars

\* A Draw of entity e2 after text(f): the text is still what f returned
\* for e2.
C4_Witness ==
    /\ call.op = "Draw" /\ call.id = "e2" /\ ncalls = 3
    /\ ent["e2"]._text = Str("My position is 100")
    /\ ent["e1"]._text = Str("")

\* The font string as the claims spell it out: the four fields separated by
\* single spaces, "10px" for an empty size, "sans-serif" for an empty family.
SpelledFont(f) ==
    f["type"].val \o " " \o f["weight"].val \o " "
      \o (IF f["size"].val = "" THEN "10px" ELSE f["size"].val) \o " "
      \o (IF f["family"].val = "" THEN "sans-serif" ELSE f["family"].val)

\* The font string the latest Draw handed to its surface.
HandedFont ==
    IF IsDOMDraw(call) THEN ent[call.id]._element.style["font"].val
    ELSE ctx.log[3].arg

\* C5: textFont merges: the map form sets exactly the fields that are keys of
\* the map, each to the map's value, and keeps every other field; the
\* key+value form sets exactly that field; the getter form returns the
\* field's current value and changes no field.
C5_FontMerge ==
    [][(call'.op = "textFont") =>
        LET old == ent[call'.id]._textFont
            new == ent'[call'.id]._textFont
            a == call'.args
        IN  /\ \A id \in Entities \ {call'.id} : ent'[id] = ent[id]
            /\ (Len(a) = 1 /\ "props" \in DOMAIN a[1]) =>
                  /\ DOMAIN new = (DOMAIN old) \cup (DOMAIN a[1].props)
                  /\ \A k \in DOMAIN new :
                        new[k] = IF k \in DOMAIN a[1].props
                                 THEN a[1].props[k] ELSE old[k]
            /\ (Len(a) = 2) =>
                  /\ DOMAIN new = (DOMAIN old) \cup {a[1].val}
                  /\ \A k \in DOMAIN new :
                        new[k] = IF k = a[1].val THEN a[2] ELSE old[k]
            /\ (Len(a) = 1 /\ a[1].type = "string") =>
                  /\ ent' = ent
                  /\ ret' = old[a[1].val]]_vars

\* textFont({family: "Arial"}) on a descriptor whose type and weight had
\* been set before: both are still there.
C5_Witness ==
    /\ call.op = "textFont" /\ call.args = <<Obj([family |-> Str("Arial")])>>
    /\ ent[call.id]._textFont =
          [type |-> Str("italic"), weight |-> Str("bold"),
           size |-> Str(""), family |-> Str("Arial")]

\* C6: the font string a Draw hands to the surface is type, weight, size or
\* "10px", family or "sans-serif", joined by single spaces with blank fields
\* keeping their spaces (" bold 10px sans-serif"); Draw leaves the stored
\* descriptor as it was, so size and family stay empty until textFont sets
\* them.
C6_ComposedFont ==
    [][(call'.op = "Draw") =>
        /\ HandedFont' = SpelledFont(ent[call'.id]._textFont)
        /\ \A id \in Entities : ent'[id]._textFont = ent[id]._textFont
        /\ (ent[call'.id]._textFont = [InitTextFont EXCEPT !["weight"] = Str("bold")])
              => HandedFont' = " bold 10px sans-serif"]_vars

\* A Draw of a descriptor with only the weight set.
C6_Witness ==
    /\ call.op = "Draw" /\ ncalls = 3
    /\ HandedFont = " bold 10px sans-serif"
    /\ ent[call.id]._textFont["size"] = Str("")
    /\ ent[call.id]._textFont["family"] = Str("")

\* C7: a canvas Draw calls save, sets fill style (the resolved color, or
\* "rgb(0,0,0)" when none was set) and font, translates by (x, y + h), calls
\* fillText with the text at (0,0), and calls restore last; one save, one
\* restore; the context's saved-state depth, transformation, fill style and
\* font after the Draw are those before it, and no other call touches them.
C7_CanvasSaveRestore ==
    [][/\ Surface(ctx') = Surface(ctx)
       /\ IsCanvasDraw(call') =>
            LET this == ent[call'.id]
                log == ctx'.log
                n == Len(log)
            IN  /\ n >= 6
                /\ log[1].op = "save"
                /\ log[1].depth = Len(ctx.stack) + 1
                /\ {log[2].op, log[3].op} = {"fillStyle", "font"}
                /\ \A i \in 2..3 : log[i].op = "fillStyle" =>
                      log[i].arg = IF this._textColor = Undefined
                                   THEN "rgb(0,0,0)" ELSE this._textColor.val
                /\ \A i \in 2..3 : log[i].op = "font" =>
                      log[i].arg = SpelledFont(this._textFont)
                /\ log[4].op = "translate"
                /\ log[4].x = this._x /\ log[4].y = this._y + this._h
                /\ log[5].op = "fillText"
                /\ log[5].arg = this._text.val /\ log[5].x = 0 /\ log[5].y = 0
                /\ log[5].state.tx = ctx.tx + this._x
                /\ log[5].state.ty = ctx.ty + this._y + this._h
                /\ log[n].op = "restore"
                /\ log[n].depth = Len(ctx.stack)
                /\ Cardinality({i \in 1..n : log[i].op = "save"}) = 1
                /\ Cardinality({i \in 1..n : log[i].op = "restore"}) = 1]_vars

\* A canvas Draw, after two other calls, on a context another drawer left
\* translated, with no color set: black text at (7 + 10, 1 + 20 + 5).
C7_Witness ==
    /\ IsCanvasDraw(call) /\ ncalls = 3 /\ call.id = "e1"
    /\ Surface(ctx) = UsedContext
    /\ ctx.log[5].state.fillStyle = "rgb(0,0,0)"
    /\ ctx.log[5].state.tx = 17 /\ ctx.log[5].state.ty = 26

\* C8: after a canvas Draw the cached width is the width the context
\* measures for the text with the composed font in effect (measured after
\* fillText and before restore), whatever it was before; a DOM Draw and
\* every method leave the cached width of every entity as it was.
C8_CachedWidth ==
    [][/\ IsCanvasDraw(call') =>
            LET this == ent[call'.id]
                log == ctx'.log
            IN  /\ ent'[call'.id]._w =
                      Len(this._text.val) * Len(SpelledFont(this._textFont))
                /\ \E i \in 1..Len(log) :
                      /\ log[i].op = "measureText"
                      /\ log[i].arg = this._text.val
                      /\ log[i].state.font = SpelledFont(this._textFont)
                      /\ \E j \in 1..(i - 1) : log[j].op = "fillText"
                      /\ \E j \in (i + 1)..Len(log) : log[j].op = "restore"
                /\ \A id \in Entities \ {call'.id} : ent'[id]._w = ent[id]._w
       /\ (~ IsCanvasDraw(call')) =>
            \A id \in Entities : ent'[id]._w = ent[id]._w]_vars

\* A canvas Draw of "hi" in " bold 20px sans-serif" replaced the width 50
\* that entity e2 had cached.
C8_Witness ==
    /\ IsCanvasDraw(call) /\ call.id = "e2" /\ ncalls = 3
    /\ ent["e2"]._text = Str("hi")
    /\ ent["e2"]._textFont["size"] = Str("20px")
    /\ ent["e2"]._w = 2 * Len(" bold 20px sans-serif")

\* C9: unselectable() on an entity without DOM leaves every entity as it was,
\* emits nothing and returns the entity; on an entity with DOM it sets the
\* six selection-disabling style properties to "none", changes nothing else
\* and emits one "Change".
C9_UnselectableNeedsDOM ==
    [][(call'.op = "unselectable") =>
        LET id == call'.id
        IN  /\ ret' = This(id)
            /\ ("DOM" \notin ent[id].comps) => (ent' = ent /\ emitted' = << >>)
            /\ ("DOM" \in ent[id].comps) =>
                  /\ emitted' = <<"Change">>
                  /\ \A p \in UnselectableProps :
                        ent'[id]._element.style[p] = Str("none")
                  /\ \A p \in (DOMAIN ent[id]._element.style) \ UnselectableProps :
                        ent'[id]._element.style[p] = ent[id]._element.style[p]
                  /\ [ent' EXCEPT ![id]._element.style = ent[id]._element.style] = ent]_vars

\* unselectable() on a Canvas entity whose text and color had been set.
C9_Witness ==
    /\ call.op = "unselectable" /\ "DOM" \notin ent[call.id].comps
    /\ ncalls = 3 /\ changes = 2 /\ emitted = << >>
    /\ ent[call.id]._text = Str("hi")

\* C10: a DOM Draw sets the element's color style to the stored color, its
\* font style to the composed font string and its content to the stored text
\* as it is ("<b>x</b>" stays "<b>x</b>"); it changes nothing else of any
\* entity and emits no "Change".
C10_DOMDraw ==
    [][IsDOMDraw(call') =>
        LET id == call'.id
            el == ent'[id]._element
        IN  /\ el.style["color"] = ent[id]._textColor
            /\ el.style["font"] = Str(SpelledFont(ent[id]._textFont))
            /\ el.innerHTML = ent[id]._text
            /\ [ent' EXCEPT ![id]._element = ent[id]._element] = ent
            /\ emitted' = << >>
            /\ changes' = changes]_vars

\* A DOM Draw of the text "<b>x</b>" in a resolved color.
C10_Witness ==
    /\ IsDOMDraw(call)
    /\ ent[call.id]._element.innerHTML = Str("<b>x</b>")
    /\ ent[call.id]._element.style["color"] = Str("rgba(255,0,0,0.6)")

====
